---- MODULE Spec2Model ----
(***************************************************************************)
(* Access/create telemetry pipeline of Sink (server/utils/access-log.ts):  *)
(* the schema registry (blobsMap, doublesMap, logsMap), the record         *)
(* encoders and decoders (logs2blobs, blobs2logs, logs2doubles,            *)
(* doubles2logs) and the event loggers (useAccessLog, useCreateLog).       *)
(*                                                                         *)
(* JavaScript values are tagged records, objects are sequences of          *)
(* [k, v] entries in property insertion order, and slot identifiers        *)
(* ("blob10") are sequences of characters so that toBlobNumber can be      *)
(* computed as the code computes it.                                       *)
(***************************************************************************)
EXTENDS Integers, Sequences, FiniteSets, TLC

VARIABLES logs, blobs, doubles, textLogs, numLogs,
          NODE_ENV, disableBotAccessLog, call, written, traced,
          stored, decoded, inflight, ANALYTICS

vars == <<logs, blobs, doubles, textLogs, numLogs,
          NODE_ENV, disableBotAccessLog, call, written, traced,
          stored, decoded, inflight, ANALYTICS>>

codecVars == <<logs, blobs, doubles, textLogs, numLogs>>
loggerVars == <<NODE_ENV, disableBotAccessLog, call, written, traced>>
decodeVars == <<stored, decoded>>
requestVars == <<inflight, ANALYTICS>>

\* Largest number of properties assigned to a record handed to the encoders.
MaxFields == 2

\* Largest number of logger invocations in flight at once.
MaxInflight == 2

\* "Nothing computed yet" marker for the variables holding a function result.
None == [t |-> "none"]

\* An invocation slot with no invocation running in it.
Idle == [pc |-> "idle", op |-> "none", event |-> None, link |-> None,
         requestLogContext |-> None, logs |-> None, traced |-> <<>>]

-----------------------------------------------------------------------------
(* JavaScript values *)

Undefined == [t |-> "undefined"]
Null == [t |-> "null"]
NaN == [t |-> "NaN"]
Str(s) == [t |-> "string", s |-> s]
Num(n) == [t |-> "number", n |-> n]
Bool(b) == [t |-> "boolean", b |-> b]

\* ToBoolean: undefined, null, NaN, 0, "" and false are falsy.
Falsy(v) ==
  CASE v.t = "undefined" -> TRUE
    [] v.t = "null" -> TRUE
    [] v.t = "NaN" -> TRUE
    [] v.t = "string" -> v.s = ""
    [] v.t = "number" -> v.n = 0
    [] v.t = "boolean" -> ~v.b
    [] OTHER -> FALSE

\* a || b
Or(a, b) == IF Falsy(a) THEN b ELSE a

\* The decimal strings the model uses, with the number each one denotes.
Numerals == <<[s |-> "35", n |-> 35], [s |-> "37", n |-> 37], [s |-> "-122", n |-> -122]>>

\* Number(v): numbers are kept, a numeric string is parsed, "" is 0,
\* any other string and undefined are NaN, null is 0.
Number(v) ==
  CASE v.t = "number" -> v
    [] v.t = "NaN" -> NaN
    [] v.t = "null" -> Num(0)
    [] v.t = "boolean" -> Num(IF v.b THEN 1 ELSE 0)
    [] v.t = "string" ->
         IF v.s = "" THEN Num(0)
         ELSE IF \E i \in 1..Len(Numerals) : Numerals[i].s = v.s
              THEN Num(Numerals[CHOOSE i \in 1..Len(Numerals) : Numerals[i].s = v.s].n)
              ELSE NaN
    [] OTHER -> NaN

\* String(v) for the values the text channel carries.
String(v) ==
  CASE v.t = "string" -> v
    [] v.t = "undefined" -> Str("undefined")
    [] v.t = "null" -> Str("null")
    [] v.t = "NaN" -> Str("NaN")
    [] v.t = "boolean" -> Str(IF v.b THEN "true" ELSE "false")
    [] OTHER -> Str("[object]")

(* Objects: sequences of entries in insertion order *)

HasKey(obj, key) == \E i \in 1..Len(obj) : obj[i].k = key

\* obj[key]
Get(obj, key) ==
  IF HasKey(obj, key)
  THEN obj[CHOOSE i \in 1..Len(obj) : obj[i].k = key].v
  ELSE Undefined

\* obj[key] = val
Put(obj, key, val) ==
  IF HasKey(obj, key)
  THEN [i \in 1..Len(obj) |-> IF obj[i].k = key THEN [k |-> key, v |-> val] ELSE obj[i]]
  ELSE Append(obj, [k |-> key, v |-> val])

ObjectKeys(obj) == [i \in 1..Len(obj) |-> obj[i].k]

ObjectEntries(obj) == [i \in 1..Len(obj) |-> <<obj[i].k, obj[i].v>>]

RECURSIVE FromEntriesFrom(_, _, _)
FromEntriesFrom(entries, i, acc) ==
  IF i > Len(entries) THEN acc
  ELSE FromEntriesFrom(entries, i + 1, Put(acc, entries[i][1], entries[i][2]))

\* Object.fromEntries: a later entry overwrites an earlier one with the same key.
ObjectFromEntries(entries) == FromEntriesFrom(entries, 1, <<>>)

-----------------------------------------------------------------------------
(* Schema registry *)

DigitChars == {"0", "1", "2", "3", "4", "5", "6", "7", "8", "9"}

DigitValue(c) ==
  CASE c = "0" -> 0 [] c = "1" -> 1 [] c = "2" -> 2 [] c = "3" -> 3 [] c = "4" -> 4
    [] c = "5" -> 5 [] c = "6" -> 6 [] c = "7" -> 7 [] c = "8" -> 8 [] c = "9" -> 9

IsDigit(c) == c \in DigitChars

RECURSIVE DecimalFrom(_, _, _)
DecimalFrom(chars, i, acc) ==
  IF i > Len(chars) THEN acc
  ELSE DecimalFrom(chars, i + 1, acc * 10 + DigitValue(chars[i]))

\* +blob.replace(/\D/g, ''): drop every non-digit, read the rest as a decimal
\* number (the empty string is 0).
toBlobNumber(blob) == DecimalFrom(SelectSeq(blob, IsDigit), 1, 0)

\* blobsMap with one field name typed twice (slot 16 repeats slot 14's name).
blobsMapDuplicate ==
  << [k |-> <<"b", "l", "o", "b", "1">>, v |-> "slug"],
     [k |-> <<"b", "l", "o", "b", "2">>, v |-> "url"],
     [k |-> <<"b", "l", "o", "b", "3">>, v |-> "ua"],
     [k |-> <<"b", "l", "o", "b", "4">>, v |-> "ip"],
     [k |-> <<"b", "l", "o", "b", "5">>, v |-> "referer"],
     [k |-> <<"b", "l", "o", "b", "6">>, v |-> "country"],
     [k |-> <<"b", "l", "o", "b", "7">>, v |-> "region"],
     [k |-> <<"b", "l", "o", "b", "8">>, v |-> "city"],
     [k |-> <<"b", "l", "o", "b", "9">>, v |-> "timezone"],
     [k |-> <<"b", "l", "o", "b", "1", "0">>, v |-> "language"],
     [k |-> <<"b", "l", "o", "b", "1", "1">>, v |-> "os"],
     [k |-> <<"b", "l", "o", "b", "1", "2">>, v |-> "browser"],
     [k |-> <<"b", "l", "o", "b", "1", "3">>, v |-> "browserType"],
     [k |-> <<"b", "l", "o", "b", "1", "4">>, v |-> "device"],
     [k |-> <<"b", "l", "o", "b", "1", "5">>, v |-> "deviceType"],
     [k |-> <<"b", "l", "o", "b", "1", "6">>, v |-> "device"],
     [k |-> <<"b", "l", "o", "b", "1", "7">>, v |-> "eventType"] >>

blobsMap ==
  << [k |-> <<"b", "l", "o", "b", "1">>, v |-> "slug"],
     [k |-> <<"b", "l", "o", "b", "2">>, v |-> "url"],
     [k |-> <<"b", "l", "o", "b", "3">>, v |-> "ua"],
     [k |-> <<"b", "l", "o", "b", "4">>, v |-> "ip"],
     [k |-> <<"b", "l", "o", "b", "5">>, v |-> "referer"],
     [k |-> <<"b", "l", "o", "b", "6">>, v |-> "country"],
     [k |-> <<"b", "l", "o", "b", "7">>, v |-> "region"],
     [k |-> <<"b", "l", "o", "b", "8">>, v |-> "city"],
     [k |-> <<"b", "l", "o", "b", "9">>, v |-> "timezone"],
     [k |-> <<"b", "l", "o", "b", "1", "0">>, v |-> "language"],
     [k |-> <<"b", "l", "o", "b", "1", "1">>, v |-> "os"],
     [k |-> <<"b", "l", "o", "b", "1", "2">>, v |-> "browser"],
     [k |-> <<"b", "l", "o", "b", "1", "3">>, v |-> "browserType"],
     [k |-> <<"b", "l", "o", "b", "1", "4">>, v |-> "device"],
     [k |-> <<"b", "l", "o", "b", "1", "5">>, v |-> "deviceType"],
     [k |-> <<"b", "l", "o", "b", "1", "6">>, v |-> "COLO"],
     [k |-> <<"b", "l", "o", "b", "1", "7">>, v |-> "eventType"] >>

\* doublesMap with double2 declared ahead of double1.
doublesMapReordered ==
  << [k |-> <<"d", "o", "u", "b", "l", "e", "2">>, v |-> "longitude"],
     [k |-> <<"d", "o", "u", "b", "l", "e", "1">>, v |-> "latitude"] >>

doublesMap ==
  << [k |-> <<"d", "o", "u", "b", "l", "e", "1">>, v |-> "latitude"],
     [k |-> <<"d", "o", "u", "b", "l", "e", "2">>, v |-> "longitude"] >>

SwapEntries(entries) == [i \in 1..Len(entries) |-> <<entries[i][2], entries[i][1]>>]

\* Field name -> slot identifier, built from both tables.
logsMap ==
  ObjectFromEntries(SwapEntries(ObjectEntries(blobsMap)) \o SwapEntries(ObjectEntries(doublesMap)))

-----------------------------------------------------------------------------
(* Encoders and decoders *)

CharCode(c) ==
  CASE c \in DigitChars -> 48 + DigitValue(c)
    [] c = "b" -> 98 [] c = "d" -> 100 [] c = "e" -> 101
    [] c = "l" -> 108 [] c = "o" -> 111 [] c = "u" -> 117

RECURSIVE LexCompareFrom(_, _, _)
LexCompareFrom(a, b, i) ==
  IF i > Len(a) /\ i > Len(b) THEN 0
  ELSE IF i > Len(a) THEN -1
  ELSE IF i > Len(b) THEN 1
  ELSE IF CharCode(a[i]) # CharCode(b[i]) THEN CharCode(a[i]) - CharCode(b[i])
  ELSE LexCompareFrom(a, b, i + 1)

\* The default comparison of sort() with no comparator: by code unit.
compareSlotsLexicographic(a, b) == LexCompareFrom(a, b, 1)

\* The comparator handed to Array.prototype.sort.
compareSlots(a, b) == toBlobNumber(a) - toBlobNumber(b)

RECURSIVE InsertSorted(_, _)
InsertSorted(sorted, key) ==
  IF sorted = <<>> THEN <<key>>
  ELSE IF compareSlots(sorted[Len(sorted)], key) > 0
       THEN Append(InsertSorted(SubSeq(sorted, 1, Len(sorted) - 1), key), sorted[Len(sorted)])
       ELSE Append(sorted, key)

RECURSIVE SortFrom(_, _, _)
SortFrom(keys, i, acc) ==
  IF i > Len(keys) THEN acc ELSE SortFrom(keys, i + 1, InsertSorted(acc, keys[i]))

\* keys.sort((a, b) => toBlobNumber(a) - toBlobNumber(b)); the sort is stable.
SortSlots(keys) == SortFrom(keys, 1, <<>>)

blobSlotOrder == SortSlots(ObjectKeys(blobsMap))
doubleSlotOrder == SortSlots(ObjectKeys(doublesMap))

\* logs2blobs without the || '' default.
logs2blobsNoDefault(l) ==
  [i \in 1..Len(blobSlotOrder) |-> String(Get(l, Get(blobsMap, blobSlotOrder[i])))]

\* logs2blobs reading the record's values in property order.
logs2blobsInsertionOrder(l) ==
  [i \in 1..Len(blobSlotOrder) |-> String(Or(IF i <= Len(l) THEN l[i].v ELSE Undefined, Str("")))]

logs2blobs(l) ==
  [i \in 1..Len(blobSlotOrder) |-> String(Or(Get(l, Get(blobsMap, blobSlotOrder[i])), Str("")))]

logs2doubles(l) ==
  [i \in 1..Len(doubleSlotOrder) |-> Number(Or(Get(l, Get(doublesMap, doubleSlotOrder[i])), Num(0)))]

\* The zip reading the key list one position late.
SlotFieldShifted(map, i) == IF i < Len(map) THEN Get(map, ObjectKeys(map)[i + 1]) ELSE "undefined"

\* map[logsList[i]] used as a property key: past the end of the key list
\* logsList[i] is undefined, the lookup is undefined, and the key is "undefined".
SlotField(map, i) == IF i <= Len(map) THEN Get(map, ObjectKeys(map)[i]) ELSE "undefined"

RECURSIVE ReduceInto(_, _, _, _)
ReduceInto(map, values, i, acc) ==
  IF i > Len(values) THEN acc
  ELSE ReduceInto(map, values, i + 1, Put(acc, SlotField(map, i), values[i]))

blobs2logs(b) == ReduceInto(blobsMap, b, 1, <<>>)

\* doubles2logs zipping against the key list back to front.
doubles2logsReversed(d) == ReduceInto(<<doublesMap[2], doublesMap[1]>>, d, 1, <<>>)

doubles2logs(d) == ReduceInto(doublesMap, d, 1, <<>>)

-----------------------------------------------------------------------------
(* Records handed to the encoders *)

TextKeys == {"slug", "url", "language", "eventType"}
NumericKeys == {"latitude", "longitude"}
TextValues == {Undefined, Null, Str(""), Str("a"), Str("b")}
NumericValues == {Undefined, Num(0), Num(7), NaN}

\* logs[k] = v on a record under construction: a new record, nothing encoded yet.
SetField ==
  /\ Len(logs) < MaxFields
  /\ \E k \in TextKeys \cup NumericKeys :
       /\ ~HasKey(logs, k)
       /\ \E v \in (IF k \in TextKeys THEN TextValues ELSE NumericValues) :
            logs' = Put(logs, k, v)
  /\ blobs' = None
  /\ doubles' = None
  /\ textLogs' = None
  /\ numLogs' = None
  /\ UNCHANGED loggerVars
  /\ UNCHANGED decodeVars
  /\ UNCHANGED requestVars

\* The same field-to-value mapping with its properties inserted in another order.
Reorder ==
  /\ \E i \in 1..(Len(logs) - 1) :
       logs' = [j \in 1..Len(logs) |->
                  IF j = i THEN logs[i + 1] ELSE IF j = i + 1 THEN logs[i] ELSE logs[j]]
  /\ UNCHANGED <<blobs, doubles, textLogs, numLogs>>
  /\ UNCHANGED loggerVars
  /\ UNCHANGED decodeVars
  /\ UNCHANGED requestVars

Logs2blobs ==
  /\ blobs = None
  /\ blobs' = logs2blobs(logs)
  /\ UNCHANGED <<logs, doubles, textLogs, numLogs>>
  /\ UNCHANGED loggerVars
  /\ UNCHANGED decodeVars
  /\ UNCHANGED requestVars

Logs2doubles ==
  /\ doubles = None
  /\ doubles' = logs2doubles(logs)
  /\ UNCHANGED <<logs, blobs, textLogs, numLogs>>
  /\ UNCHANGED loggerVars
  /\ UNCHANGED decodeVars
  /\ UNCHANGED requestVars

Blobs2logs ==
  /\ blobs # None
  /\ textLogs = None
  /\ textLogs' = blobs2logs(blobs)
  /\ UNCHANGED <<logs, blobs, doubles, numLogs>>
  /\ UNCHANGED loggerVars
  /\ UNCHANGED decodeVars
  /\ UNCHANGED requestVars

Doubles2logs ==
  /\ doubles # None
  /\ numLogs = None
  /\ numLogs' = doubles2logs(doubles)
  /\ UNCHANGED <<logs, blobs, doubles, textLogs>>
  /\ UNCHANGED loggerVars
  /\ UNCHANGED decodeVars
  /\ UNCHANGED requestVars

CodecNext ==
  \/ SetField
  \/ Reorder
  \/ Logs2blobs
  \/ Logs2doubles
  \/ Blobs2logs
  \/ Doubles2logs

\* An empty record, nothing encoded or decoded, and no logger invocation.
CodecInit ==
  /\ logs = <<>>
  /\ blobs = None
  /\ doubles = None
  /\ textLogs = None
  /\ numLogs = None
  /\ NODE_ENV = "development"
  /\ disableBotAccessLog = FALSE
  /\ call = None
  /\ written = <<>>
  /\ traced = <<>>
  /\ stored = [channel |-> "blobs", values |-> <<>>]
  /\ decoded = None
  /\ inflight = [r \in 1..MaxInflight |-> Idle]
  /\ ANALYTICS = <<>>

CodecSpec == CodecInit /\ [][CodecNext]_vars

\* Largest number of strings, and of numbers, in a stored row handed to the
\* decoders: one more than the channel's slot count.
MaxStoredBlobs == 18
MaxStoredDoubles == 3

StoredNumbers == {Num(0), Num(7)}

\* A stored row's text channel arrives as the argument of blobs2logs: any
\* number of strings, one of them marked to tell the positions apart.
LoadBlobs ==
  /\ \E n \in 0..MaxStoredBlobs : \E marked \in 0..n :
       stored' = [channel |-> "blobs",
                  values |-> [i \in 1..n |-> IF i = marked THEN Str("b") ELSE Str("a")]]
  /\ decoded' = None
  /\ UNCHANGED <<codecVars, loggerVars, requestVars>>

\* A stored row's numeric channel arrives as the argument of doubles2logs.
LoadDoubles ==
  /\ \E n \in 0..MaxStoredDoubles : \E row \in [1..n -> StoredNumbers] :
       stored' = [channel |-> "doubles", values |-> [i \in 1..n |-> row[i]]]
  /\ decoded' = None
  /\ UNCHANGED <<codecVars, loggerVars, requestVars>>

DecodeBlobs ==
  /\ stored.channel = "blobs"
  /\ decoded = None
  /\ decoded' = [t |-> "object", o |-> blobs2logs(stored.values)]
  /\ UNCHANGED <<stored, codecVars, loggerVars, requestVars>>

DecodeDoubles ==
  /\ stored.channel = "doubles"
  /\ decoded = None
  /\ decoded' = [t |-> "object", o |-> doubles2logs(stored.values)]
  /\ UNCHANGED <<stored, codecVars, loggerVars, requestVars>>

DecodeNext ==
  \/ LoadBlobs
  \/ LoadDoubles
  \/ DecodeBlobs
  \/ DecodeDoubles

\* No row loaded yet; the encoders and the loggers stay idle.
DecodeInit ==
  /\ logs = <<>>
  /\ blobs = None
  /\ doubles = None
  /\ textLogs = None
  /\ numLogs = None
  /\ NODE_ENV = "development"
  /\ disableBotAccessLog = FALSE
  /\ call = None
  /\ written = <<>>
  /\ traced = <<>>
  /\ stored = [channel |-> "blobs", values |-> <<>>]
  /\ decoded = None
  /\ inflight = [r \in 1..MaxInflight |-> Idle]
  /\ ANALYTICS = <<>>

DecodeSpec == DecodeInit /\ [][DecodeNext]_vars

-----------------------------------------------------------------------------
(* Requests *)

Obj(entries) == [t |-> "object", o |-> entries]

\* v?.key
OptGet(v, key) == IF v.t = "object" THEN Get(v.o, key) ELSE Undefined

RangeError == [t |-> "throw", error |-> "RangeError"]

\* { ...a, ...b }
Spread(a, b) == FromEntriesFrom(ObjectEntries(b), 1, a)

HeaderSets ==
  { <<>>,
    << [k |-> "cf-connecting-ip", v |-> Str("203.0.113.7")],
       [k |-> "referer", v |-> Str("https://example.com/a")],
       [k |-> "accept-language", v |-> Str("en-US,en;q=0.9")],
       [k |-> "user-agent", v |-> Str("Mozilla/5.0")],
       [k |-> "cf-iplatitude", v |-> Str("35")],
       [k |-> "cf-iplongitude", v |-> Str("-122")] >>,
    << [k |-> "x-real-ip", v |-> Str("198.51.100.9")],
       [k |-> "referer", v |-> Str("not a url")],
       [k |-> "accept-language", v |-> Str(";;")],
       [k |-> "user-agent", v |-> Str("Mozilla/5.0")],
       [k |-> "cf-iplatitude", v |-> Str("north")] >> }

\* request.cf, the platform's connection properties.
CfSets ==
  { Undefined,
    Obj(<<>>),
    Obj(<< [k |-> "country", v |-> Str("US")],
           [k |-> "region", v |-> Str("California")],
           [k |-> "city", v |-> Str("San Jose")],
           [k |-> "timezone", v |-> Str("America/Los_Angeles")],
           [k |-> "colo", v |-> Str("SJC")],
           [k |-> "latitude", v |-> Str("37")],
           [k |-> "longitude", v |-> Str("-122")],
           [k |-> "botManagement", v |-> Obj(<<[k |-> "verifiedBot", v |-> Bool(FALSE)]>>)] >>),
    Obj(<< [k |-> "country", v |-> Str("US")],
           [k |-> "colo", v |-> Str("SJC")],
           [k |-> "botManagement", v |-> Obj(<<[k |-> "verifiedBot", v |-> Bool(TRUE)]>>)] >>),
    Obj(<< [k |-> "country", v |-> Str("JP")],
           [k |-> "region", v |-> Str("Tokyo")],
           [k |-> "colo", v |-> Str("NRT")] >>),
    Obj(<< [k |-> "country", v |-> Str("T1")],
           [k |-> "colo", v |-> Str("AMS")] >>) }

UAResult(name, type, os, model, deviceType) ==
  Obj(<< [k |-> "browser", v |-> Obj(<<[k |-> "name", v |-> name], [k |-> "type", v |-> type]>>)],
         [k |-> "os", v |-> Obj(<<[k |-> "name", v |-> os]>>)],
         [k |-> "device", v |-> Obj(<<[k |-> "model", v |-> model], [k |-> "type", v |-> deviceType]>>)] >>)

\* Results of UAParser.getResult() for the request's user-agent.
UAResults ==
  { UAResult(Undefined, Undefined, Undefined, Undefined, Undefined),
    UAResult(Str("Chrome"), Undefined, Str("Android"), Str("Pixel 8"), Str("mobile")),
    UAResult(Str("Googlebot"), Str("crawler"), Undefined, Undefined, Undefined),
    UAResult(Str("axios"), Str("fetcher"), Undefined, Undefined, Undefined),
    UAResult(Str("curl"), Str("cli"), Undefined, Undefined, Undefined),
    UAResult(Str("Bot"), Undefined, Undefined, Undefined, Undefined),
    UAResult(Str("YandexBot"), Undefined, Str("Linux"), Undefined, Undefined) }

Links ==
  { Obj(<< [k |-> "id", v |-> Str("id-1")],
           [k |-> "slug", v |-> Str("abc")],
           [k |-> "url", v |-> Str("https://sink.cool")] >>) }

FullHeaders == CHOOSE h \in HeaderSets : HasKey(h, "cf-connecting-ip")

\* An H3 event: its headers, the transport peer address, the platform's
\* request.cf, the parser's result for its user-agent, and event.context.link.
\* Every pairing of connection properties with parser result, and every
\* pairing of headers with link.
Events ==
  [ headers : {FullHeaders},
    peer : {Undefined},
    cf : CfSets,
    uaInfo : UAResults,
    link : Links ]
  \cup
  [ headers : HeaderSets,
    peer : {Undefined, Str("192.0.2.1")},
    cf : {Undefined},
    uaInfo : {UAResult(Str("Chrome"), Undefined, Str("Android"), Str("Pixel 8"), Str("mobile"))},
    link : Links \cup {Undefined} ]

getHeader(event, name) == Get(event.headers, name)

\* getRequestIP(event, { xForwardedFor: true })
getRequestIP(event) == event.peer

\* parseURL(input).host (ufo): the host of an absolute URL, undefined otherwise.
parseURLHost(v) ==
  IF v.t = "string" /\ v.s = "https://example.com/a" THEN Str("example.com") ELSE Undefined

\* parseAcceptLanguage (intl-parse-accept-language): the ranked locale list.
parseAcceptLanguage(v) ==
  IF v.t = "string" /\ v.s = "en-US,en;q=0.9" THEN <<Str("en-US"), Str("en")>> ELSE <<>>

getRequestLogContext(event) ==
  [ cf |-> event.cf,
    ip |-> Or(Or(getHeader(event, "cf-connecting-ip"), getHeader(event, "x-real-ip")), getRequestIP(event)),
    language |-> LET list == parseAcceptLanguage(Or(getHeader(event, "accept-language"), Str("")))
                 IN IF Len(list) > 0 THEN list[1] ELSE Undefined,
    referer |-> parseURLHost(getHeader(event, "referer")),
    uaInfo |-> event.uaInfo,
    userAgent |-> Or(getHeader(event, "user-agent"), Str("")) ]

\* new Intl.DisplayNames(['en'], { type: 'region' }).of(code): the English
\* name, the code itself when the well-formed code has no name, and a
\* RangeError when the code is not two letters or three digits.
regionNamesOf(code) ==
  CASE code.s = "US" -> Str("United States")
    [] code.s = "JP" -> Str("Japan")
    [] code.s = "WD" -> Str("WD")
    [] code.s = "T1" -> RangeError

getFlag(country) ==
  IF country.t = "string" THEN Str("<" \o country.s \o " flag>") ELSE Str("<no flag>")

\* [a, b].join(',') without the filter: an empty member still takes its comma.
FilterJoinKeepEmpty(a, b) ==
  (IF Falsy(a) THEN "" ELSE String(a).s) \o "," \o (IF Falsy(b) THEN "" ELSE String(b).s)

\* [a, b].filter(Boolean).join(',')
FilterJoin(a, b) ==
  IF Falsy(a) /\ Falsy(b) THEN ""
  ELSE IF Falsy(a) THEN String(b).s
  ELSE IF Falsy(b) THEN String(a).s
  ELSE String(a).s \o "," \o String(b).s

createRequestLogs(event, link, request, eventType) ==
  LET countryName == regionNamesOf(Or(OptGet(request.cf, "country"), Str("WD"))) IN
  IF countryName.t = "throw" THEN countryName
  ELSE Obj(<<
    [k |-> "url", v |-> OptGet(link, "url")],
    [k |-> "slug", v |-> OptGet(link, "slug")],
    [k |-> "ua", v |-> request.userAgent],
    [k |-> "ip", v |-> request.ip],
    [k |-> "referer", v |-> request.referer],
    [k |-> "country", v |-> OptGet(request.cf, "country")],
    [k |-> "region", v |-> Str(getFlag(OptGet(request.cf, "country")).s \o " "
                               \o FilterJoin(OptGet(request.cf, "region"), countryName))],
    [k |-> "city", v |-> Str(getFlag(OptGet(request.cf, "country")).s \o " "
                             \o FilterJoin(OptGet(request.cf, "city"), countryName))],
    [k |-> "timezone", v |-> OptGet(request.cf, "timezone")],
    [k |-> "language", v |-> request.language],
    [k |-> "os", v |-> OptGet(OptGet(request.uaInfo, "os"), "name")],
    [k |-> "browser", v |-> OptGet(OptGet(request.uaInfo, "browser"), "name")],
    [k |-> "browserType", v |-> OptGet(OptGet(request.uaInfo, "browser"), "type")],
    [k |-> "device", v |-> OptGet(OptGet(request.uaInfo, "device"), "model")],
    [k |-> "deviceType", v |-> OptGet(OptGet(request.uaInfo, "device"), "type")],
    [k |-> "COLO", v |-> OptGet(request.cf, "colo")],
    [k |-> "eventType", v |-> Str(eventType)],
    [k |-> "latitude", v |-> Number(Or(Or(OptGet(request.cf, "latitude"),
                                          getHeader(event, "cf-iplatitude")), Num(0)))],
    [k |-> "longitude", v |-> Number(Or(Or(OptGet(request.cf, "longitude"),
                                           getHeader(event, "cf-iplongitude")), Num(0)))] >>)

-----------------------------------------------------------------------------
(* Event loggers *)

\* String.prototype.toLowerCase on the browser names of UAResults.
toLowerCase(v) ==
  CASE v.t # "string" -> v
    [] v.s = "Chrome" -> Str("chrome")
    [] v.s = "Googlebot" -> Str("googlebot")
    [] v.s = "YandexBot" -> Str("yandexbot")
    [] v.s = "Bot" -> Str("bot")
    [] OTHER -> v

\* Array.prototype.includes: membership by strict equality.
Includes(list, v) == \E i \in 1..Len(list) : list[i] = v

isBot(requestLogContext) ==
  Or(Or(OptGet(OptGet(requestLogContext.cf, "botManagement"), "verifiedBot"),
        Bool(Includes(<<Str("crawler"), Str("fetcher")>>,
                      Or(OptGet(OptGet(requestLogContext.uaInfo, "browser"), "type"), Str(""))))),
     Bool(Includes(<<Str("spider"), Str("bot")>>,
                   Or(toLowerCase(OptGet(OptGet(requestLogContext.uaInfo, "browser"), "name")), Str("")))))

\* The data point indexed by the link's slug instead of its id.
DataPointSlugIndex(link, l) ==
  [indexes |-> <<OptGet(link, "slug")>>, blobs |-> logs2blobs(l), doubles |-> logs2doubles(l)]

DataPoint(link, l) ==
  [indexes |-> <<OptGet(link, "id")>>, blobs |-> logs2blobs(l), doubles |-> logs2doubles(l)]

\* console.log(label, logs, logs2blobs(logs), logs2doubles(logs), { ...decoded })
LogsTrace(label, l) ==
  [label |-> label,
   args |-> <<l, logs2blobs(l), logs2doubles(l),
              Spread(blobs2logs(logs2blobs(l)), doubles2logs(logs2doubles(l)))>>]

\* What one invocation does: the verdict it computed, the record it assembled
\* (None when it assembled none), the writeDataPoint calls and console.log
\* lines it issued, and how it ended.
Outcome(bot, l, writes, traces, result) ==
  [isBot |-> bot, logs |-> l, written |-> writes, traced |-> traces, result |-> result]

\* useAccessLog without the bot check.
useAccessLogNoSuppression(event) ==
  LET requestLogContext == getRequestLogContext(event)
      link == Or(event.link, Obj(<<>>))
      bot == ~Falsy(isBot(requestLogContext))
      accessLogs == createRequestLogs(event, link, requestLogContext, "access")
  IN IF accessLogs.t = "throw"
     THEN Outcome(bot, None, <<>>, <<>>, "threw")
     ELSE IF NODE_ENV = "production"
     THEN Outcome(bot, accessLogs, <<DataPoint(link, accessLogs.o)>>, <<>>, "sink")
     ELSE Outcome(bot, accessLogs, <<>>, <<LogsTrace("access logs:", accessLogs.o)>>, "resolved")

\* useAccessLog writing the data point a second time.
useAccessLogRetry(event) ==
  LET requestLogContext == getRequestLogContext(event)
      link == Or(event.link, Obj(<<>>))
      bot == ~Falsy(isBot(requestLogContext))
      accessLogs == createRequestLogs(event, link, requestLogContext, "access")
  IN IF bot /\ disableBotAccessLog
     THEN Outcome(bot, None, <<>>,
                  <<[label |-> "bot access log disabled:", args |-> <<requestLogContext.userAgent>>]>>,
                  "resolved")
     ELSE IF accessLogs.t = "throw"
     THEN Outcome(bot, None, <<>>, <<>>, "threw")
     ELSE IF NODE_ENV = "production"
     THEN Outcome(bot, accessLogs,
                  <<DataPoint(link, accessLogs.o), DataPoint(link, accessLogs.o)>>, <<>>, "sink")
     ELSE Outcome(bot, accessLogs, <<>>, <<LogsTrace("access logs:", accessLogs.o)>>, "resolved")

useAccessLog(event) ==
  LET requestLogContext == getRequestLogContext(event)
      link == Or(event.link, Obj(<<>>))
      bot == ~Falsy(isBot(requestLogContext))
      accessLogs == createRequestLogs(event, link, requestLogContext, "access")
  IN IF bot /\ disableBotAccessLog
     THEN Outcome(bot, None, <<>>,
                  <<[label |-> "bot access log disabled:", args |-> <<requestLogContext.userAgent>>]>>,
                  "resolved")
     ELSE IF accessLogs.t = "throw"
     THEN Outcome(bot, None, <<>>, <<>>, "threw")
     ELSE IF NODE_ENV = "production"
     THEN Outcome(bot, accessLogs, <<DataPoint(link, accessLogs.o)>>, <<>>, "sink")
     ELSE Outcome(bot, accessLogs, <<>>, <<LogsTrace("access logs:", accessLogs.o)>>, "resolved")

\* useCreateLog applying useAccessLog's bot check.
useCreateLogSuppressed(event, link) ==
  LET requestLogContext == getRequestLogContext(event)
      bot == ~Falsy(isBot(requestLogContext))
      createLogs == createRequestLogs(event, link, requestLogContext, "create")
  IN IF bot /\ disableBotAccessLog
     THEN Outcome(bot, None, <<>>,
                  <<[label |-> "bot access log disabled:", args |-> <<requestLogContext.userAgent>>]>>,
                  "resolved")
     ELSE IF createLogs.t = "throw"
     THEN Outcome(FALSE, None, <<>>, <<>>, "threw")
     ELSE IF NODE_ENV = "production"
     THEN Outcome(FALSE, createLogs, <<DataPoint(link, createLogs.o)>>, <<>>, "sink")
     ELSE Outcome(FALSE, createLogs, <<>>, <<LogsTrace("create logs:", createLogs.o)>>, "resolved")

useCreateLog(event, link) ==
  LET requestLogContext == getRequestLogContext(event)
      createLogs == createRequestLogs(event, link, requestLogContext, "create")
  IN IF createLogs.t = "throw"
     THEN Outcome(FALSE, None, <<>>, <<>>, "threw")
     ELSE IF NODE_ENV = "production"
     THEN Outcome(FALSE, createLogs, <<DataPoint(link, createLogs.o)>>, <<>>, "sink")
     ELSE Outcome(FALSE, createLogs, <<>>, <<LogsTrace("create logs:", createLogs.o)>>, "resolved")

\* How env.ANALYTICS.writeDataPoint behaves when it is called: it returns a
\* result that later fulfils, returns a result that later rejects, or throws.
SinkModes == {"accepts", "rejects", "throws"}

SinkModesFor(r) == IF Len(r.written) = 0 THEN {"unused"} ELSE SinkModes

Handed(t, of, state) == [t |-> t, of |-> of, state |-> state]

\* The logging call wrapping the write in try/catch and resolving on failure.
ReturnedCaught(r, mode) ==
  IF r.result = "threw" THEN Handed("exception", "RangeError", "thrown")
  ELSE IF r.result = "sink" /\ mode = "accepts" THEN Handed("promise", "sink", "pending")
  ELSE Handed("promise", "Promise.resolve", "fulfilled")

\* What the caller gets: the exception the call raised, the value of
\* `return env.ANALYTICS.writeDataPoint(...)`, or Promise.resolve().
Returned(r, mode) ==
  IF r.result = "threw" THEN Handed("exception", "RangeError", "thrown")
  ELSE IF r.result = "sink" /\ mode = "throws" THEN Handed("exception", "sink", "thrown")
  ELSE IF r.result = "sink" THEN Handed("promise", "sink", "pending")
  ELSE Handed("promise", "Promise.resolve", "fulfilled")

Init ==
  /\ logs = <<>>
  /\ blobs = None
  /\ doubles = None
  /\ textLogs = None
  /\ numLogs = None
  /\ NODE_ENV \in {"production", "development"}
  /\ disableBotAccessLog \in BOOLEAN
  /\ call = None
  /\ written = <<>>
  /\ traced = <<>>
  /\ stored = [channel |-> "blobs", values |-> <<>>]
  /\ decoded = None
  /\ inflight = [r \in 1..MaxInflight |-> Idle]
  /\ ANALYTICS = <<>>

AccessLog ==
  /\ \E event \in Events :
       \E r \in {useAccessLog(event)} : \E mode \in SinkModesFor(r) :
         /\ call' = [t |-> "call", op |-> "access", event |-> event,
                     link |-> Or(event.link, Obj(<<>>)),
                     isBot |-> r.isBot, logs |-> r.logs, result |-> r.result,
                     sink |-> mode, handed |-> Returned(r, mode)]
         /\ written' = r.written
         /\ traced' = r.traced
  /\ UNCHANGED <<NODE_ENV, disableBotAccessLog>>
  /\ UNCHANGED codecVars
  /\ UNCHANGED decodeVars
  /\ UNCHANGED requestVars

CreateLog ==
  /\ \E event \in Events, link \in Links :
       \E r \in {useCreateLog(event, link)} : \E mode \in SinkModesFor(r) :
         /\ call' = [t |-> "call", op |-> "create", event |-> event, link |-> link,
                     isBot |-> r.isBot, logs |-> r.logs, result |-> r.result,
                     sink |-> mode, handed |-> Returned(r, mode)]
         /\ written' = r.written
         /\ traced' = r.traced
  /\ UNCHANGED <<NODE_ENV, disableBotAccessLog>>
  /\ UNCHANGED codecVars
  /\ UNCHANGED decodeVars
  /\ UNCHANGED requestVars

\* The write handed back to the caller settles; the logging call has long
\* returned and takes no further step.
SettleWrite ==
  /\ call.t = "call"
  /\ call.handed.state = "pending"
  /\ call' = [call EXCEPT !.handed.state = IF call.sink = "rejects" THEN "rejected" ELSE "fulfilled"]
  /\ UNCHANGED <<NODE_ENV, disableBotAccessLog, written, traced>>
  /\ UNCHANGED codecVars
  /\ UNCHANGED decodeVars
  /\ UNCHANGED requestVars

Next ==
  \/ AccessLog
  \/ CreateLog
  \/ SettleWrite

Spec == Init /\ [][Next]_vars

-----------------------------------------------------------------------------
(* Simultaneous invocations: each logger call split at its statements, the  *)
(* calls of different requests interleaved in any order                     *)

OtherLink ==
  Obj(<< [k |-> "id", v |-> Str("id-2")],
         [k |-> "slug", v |-> Str("xyz")],
         [k |-> "url", v |-> Str("https://example.org")] >>)

ConcurrentEvent(country, browser) ==
  CHOOSE e \in Events :
    /\ e.headers = FullHeaders
    /\ e.cf.t = "object"
    /\ Get(e.cf.o, "country") = Str(country)
    /\ ~HasKey(e.cf.o, "city")
    /\ OptGet(OptGet(e.uaInfo, "browser"), "name") = Str(browser)

\* The calls in flight: an access by a browser, an access by a crawler, and
\* the creation of another link from a third place.
ConcurrentInputs ==
  { [op |-> "access", event |-> ConcurrentEvent("JP", "Chrome"), link |-> Undefined],
    [op |-> "access", event |-> ConcurrentEvent("US", "Googlebot"), link |-> Undefined],
    [op |-> "create", event |-> ConcurrentEvent("US", "Chrome"), link |-> OtherLink],
    [op |-> "create", event |-> ConcurrentEvent("T1", "Chrome"), link |-> OtherLink] }

\* The record every invocation's dispatch reads from one binding shared by
\* the module: whichever record another invocation assembled.
RecordOfShared(flights, r) ==
  LET others == {q \in DOMAIN flights : q # r /\ flights[q].logs.t = "object"}
  IN IF others = {} THEN flights[r].logs ELSE flights[CHOOSE q \in others : TRUE].logs

\* `const accessLogs` / `const createLogs`: the invocation's own binding.
RecordOf(flights, r) == flights[r].logs

\* useAccessLog(event) / useCreateLog(event, link) is called.
Receive(r) ==
  /\ inflight[r].pc = "idle"
  /\ \E input \in ConcurrentInputs :
       inflight' = [inflight EXCEPT ![r] =
                      [Idle EXCEPT !.pc = "received", !.op = input.op,
                                   !.event = input.event, !.link = input.link]]
  /\ UNCHANGED <<ANALYTICS, codecVars, loggerVars, decodeVars>>

\* const requestLogContext = getRequestLogContext(event);
\* const link = event.context.link || {}
Extract(r) ==
  /\ inflight[r].pc = "received"
  /\ inflight' = [inflight EXCEPT
                    ![r].pc = "extracted",
                    ![r].requestLogContext = getRequestLogContext(inflight[r].event),
                    ![r].link = IF inflight[r].op = "access"
                                THEN Or(inflight[r].event.link, Obj(<<>>))
                                ELSE inflight[r].link]
  /\ UNCHANGED <<ANALYTICS, codecVars, loggerVars, decodeVars>>

\* The bot check of useAccessLog, then createRequestLogs.
Assemble(r) ==
  /\ inflight[r].pc = "extracted"
  /\ LET q == inflight[r]
         record == createRequestLogs(q.event, q.link, q.requestLogContext, q.op)
     IN IF q.op = "access" /\ ~Falsy(isBot(q.requestLogContext)) /\ disableBotAccessLog
        THEN inflight' = [inflight EXCEPT
                            ![r].pc = "done",
                            ![r].traced = <<[label |-> "bot access log disabled:",
                                             args |-> <<q.requestLogContext.userAgent>>]>>]
        ELSE IF record.t = "throw"
        THEN inflight' = [inflight EXCEPT ![r].pc = "threw"]
        ELSE inflight' = [inflight EXCEPT ![r].pc = "assembled", ![r].logs = record]
  /\ UNCHANGED <<ANALYTICS, codecVars, loggerVars, decodeVars>>

\* env.ANALYTICS.writeDataPoint({...}) in production, console.log otherwise.
Dispatch(r) ==
  /\ inflight[r].pc = "assembled"
  /\ LET q == inflight[r]
         record == RecordOf(inflight, r)
     IN IF NODE_ENV = "production"
        THEN /\ ANALYTICS' = Append(ANALYTICS, [rid |-> r, point |-> DataPoint(q.link, record.o)])
             /\ inflight' = [inflight EXCEPT ![r].pc = "done"]
        ELSE /\ ANALYTICS' = ANALYTICS
             /\ inflight' = [inflight EXCEPT
                               ![r].pc = "done",
                               ![r].traced = <<LogsTrace(q.op \o " logs:", record.o)>>]
  /\ UNCHANGED <<codecVars, loggerVars, decodeVars>>

ConcurrentNext ==
  \E r \in 1..MaxInflight :
    \/ Receive(r)
    \/ Extract(r)
    \/ Assemble(r)
    \/ Dispatch(r)

\* No invocation in flight, in either runtime mode and with either setting.
ConcurrentInit ==
  /\ logs = <<>>
  /\ blobs = None
  /\ doubles = None
  /\ textLogs = None
  /\ numLogs = None
  /\ NODE_ENV \in {"production", "development"}
  /\ disableBotAccessLog \in BOOLEAN
  /\ call = None
  /\ written = <<>>
  /\ traced = <<>>
  /\ stored = [channel |-> "blobs", values |-> <<>>]
  /\ decoded = None
  /\ inflight = [r \in 1..MaxInflight |-> Idle]
  /\ ANALYTICS = <<>>

ConcurrentSpec == ConcurrentInit /\ [][ConcurrentNext]_vars

-----------------------------------------------------------------------------
(* Properties of the registry and of the encoders and decoders *)

TextFields == {blobsMap[i].v : i \in 1..Len(blobsMap)}
NumericFields == {doublesMap[i].v : i \in 1..Len(doublesMap)}

\* The record's value for a text field, "" when absent, undefined or null.
TextOf(l, f) == IF Get(l, f).t = "string" THEN Get(l, f) ELSE Str("")

IsNumeric(v) == v.t \in {"number", "NaN"}

\* C1: decoding the encoded text channel gives, for each of the 17 text
\* fields, the record's string value, and "" for a field that is absent,
\* undefined or null.
C1_TextRoundTrip ==
  textLogs # None =>
    /\ Cardinality(TextFields) = 17
    /\ \A f \in TextFields : HasKey(textLogs, f) /\ Get(textLogs, f) = TextOf(logs, f)

C1_Witness ==
  /\ textLogs # None
  /\ Get(logs, "url") = Str("a")
  /\ HasKey(logs, "language") /\ Get(logs, "language") = Null
  /\ ~HasKey(logs, "slug")

\* C2 as stated: decoding the encoded numeric channel gives the record's
\* numeric value for latitude and longitude, and 0 for an absent field.
C2_NumericRoundTripAnyNumber ==
  numLogs # None =>
    \A f \in NumericFields :
      Get(numLogs, f) = (IF IsNumeric(Get(logs, f)) THEN Get(logs, f) ELSE Num(0))

\* C2 amended: decoding the encoded numeric channel gives the record's value
\* for latitude and longitude when it is a number other than NaN, and 0 when
\* the field is absent, undefined or NaN.
C2_NumericRoundTrip ==
  numLogs # None =>
    \A f \in NumericFields :
      /\ HasKey(numLogs, f)
      /\ Get(numLogs, f) = (IF Get(logs, f).t = "number" THEN Get(logs, f) ELSE Num(0))

C2_Witness ==
  /\ numLogs # None
  /\ Get(logs, "latitude") = NaN
  /\ Get(logs, "longitude") = Num(7)

\* C3: the encoded sequences depend only on the field-to-value mapping: every
\* insertion order of the record's properties encodes to the sequences
\* already computed for it.
C3_OrderIndependence ==
  \A p \in Permutations(1..Len(logs)) :
    LET reordered == [i \in 1..Len(logs) |-> logs[p[i]]] IN
      /\ blobs # None => logs2blobs(reordered) = blobs
      /\ doubles # None => logs2doubles(reordered) = doubles

C3_Witness ==
  /\ Len(logs) >= 2
  /\ blobs # None
  /\ doubles # None
  /\ logs[1].k = "language" /\ logs[1].v = Str("b")
  /\ logs[2].k = "slug" /\ logs[2].v = Str("a")

NoSharedField(map) ==
  \A i, j \in 1..Len(map) : i # j => map[i].v # map[j].v /\ map[i].k # map[j].k

\* C4: in each table no two slots name the same field, no field is in both
\* tables, and logsMap is the exact inverse of both tables; a decoded record
\* has one key per slot, which logsMap takes back to that slot.
C4_Bijection ==
  /\ NoSharedField(blobsMap)
  /\ NoSharedField(doublesMap)
  /\ TextFields \cap NumericFields = {}
  /\ \A i \in 1..Len(blobsMap) :
       HasKey(logsMap, blobsMap[i].v) /\ Get(logsMap, blobsMap[i].v) = blobsMap[i].k
  /\ \A i \in 1..Len(doublesMap) :
       HasKey(logsMap, doublesMap[i].v) /\ Get(logsMap, doublesMap[i].v) = doublesMap[i].k
  /\ \A i \in 1..Len(logsMap) :
       \/ HasKey(blobsMap, logsMap[i].v) /\ Get(blobsMap, logsMap[i].v) = logsMap[i].k
       \/ HasKey(doublesMap, logsMap[i].v) /\ Get(doublesMap, logsMap[i].v) = logsMap[i].k
  /\ textLogs # None =>
       /\ Len(textLogs) = Len(blobsMap)
       /\ \A i \in 1..Len(textLogs) : Get(logsMap, textLogs[i].k) = blobsMap[i].k
  /\ numLogs # None =>
       /\ Len(numLogs) = Len(doublesMap)
       /\ \A i \in 1..Len(numLogs) : Get(logsMap, numLogs[i].k) = doublesMap[i].k

C4_Witness ==
  /\ Len(logsMap) = 19
  /\ Get(logsMap, "language") = <<"b", "l", "o", "b", "1", "0">>
  /\ Get(logsMap, "longitude") = <<"d", "o", "u", "b", "l", "e", "2">>
  /\ textLogs # None
  /\ numLogs # None

\* The fixed table of text slots 1..17.
TextLayout ==
  << "slug", "url", "ua", "ip", "referer", "country", "region", "city", "timezone",
     "language", "os", "browser", "browserType", "device", "deviceType", "COLO",
     "eventType" >>

\* C5: logs2blobs returns 17 strings, the i-th being the record's value for
\* the field of slot blob<i> ("" when absent); logs2doubles returns 2
\* numbers, latitude then longitude (0 when absent).
C5_FixedLayout ==
  /\ blobs # None =>
       /\ Len(blobs) = 17
       /\ \A i \in 1..17 : blobs[i] = TextOf(logs, TextLayout[i])
  /\ doubles # None =>
       /\ Len(doubles) = 2
       /\ \A i \in 1..2 :
            LET v == Get(logs, <<"latitude", "longitude">>[i]) IN
              /\ doubles[i].t = "number"
              /\ v.t = "number" => doubles[i] = v
              /\ v.t = "undefined" => doubles[i] = Num(0)

C5_Witness ==
  /\ blobs # None
  /\ doubles # None
  /\ Get(logs, "url") = Str("a")
  /\ Get(logs, "language") = Str("b")
  /\ blobs[2] = Str("a")
  /\ blobs[10] = Str("b")

-----------------------------------------------------------------------------
(* Properties of the event loggers *)

Invoked(op) == call.t = "call" /\ call.op = op

\* The request's bot verdict, as useAccessLog computes it.
Verdict(event) == ~Falsy(isBot(getRequestLogContext(event)))

\* The region-name lookup raises on the request's country code.
LookupRaises(event) == regionNamesOf(Or(OptGet(event.cf, "country"), Str("WD"))).t = "throw"

Suppressed == Invoked("access") /\ Verdict(call.event) /\ disableBotAccessLog

\* C6: with the bot verdict true and disableBotAccessLog set, useAccessLog
\* writes nothing to the sink in either runtime mode, emits only the
\* diagnostic trace, and returns without assembling a record.
C6_BotSuppression ==
  Suppressed =>
    /\ written = <<>>
    /\ Len(traced) = 1
    /\ traced[1].label = "bot access log disabled:"
    /\ traced[1].args = <<getRequestLogContext(call.event).userAgent>>
    /\ call.logs.t = "none"
    /\ call.result = "resolved"

C6_Witness ==
  /\ Suppressed
  /\ NODE_ENV = "production"
  /\ OptGet(OptGet(call.event.cf, "botManagement"), "verifiedBot") = Bool(TRUE)
  /\ Len(traced) = 1

Chars(s) ==
  CASE s = "chrome" -> <<"c", "h", "r", "o", "m", "e">>
    [] s = "googlebot" -> <<"g", "o", "o", "g", "l", "e", "b", "o", "t">>
    [] s = "yandexbot" -> <<"y", "a", "n", "d", "e", "x", "b", "o", "t">>
    [] s = "bot" -> <<"b", "o", "t">>
    [] s = "axios" -> <<"a", "x", "i", "o", "s">>
    [] s = "curl" -> <<"c", "u", "r", "l">>

Contains(chars, part) ==
  \E i \in 1..(Len(chars) - Len(part) + 1) : SubSeq(chars, i, i + Len(part) - 1) = part

NameContains(name, part) ==
  name.t = "string" /\ Contains(Chars(toLowerCase(name).s), part)

\* C9: the verdict is true exactly when the platform's signal is set, or the
\* browser classification is 'crawler' or 'fetcher', or the browser name
\* contains 'spider' or 'bot' as a case-insensitive substring.
C9_BotVerdict ==
  Invoked("access") =>
    LET browser == OptGet(call.event.uaInfo, "browser") IN
    call.isBot <=>
      \/ OptGet(OptGet(call.event.cf, "botManagement"), "verifiedBot") = Bool(TRUE)
      \/ OptGet(browser, "type") \in {Str("crawler"), Str("fetcher")}
      \/ NameContains(OptGet(browser, "name"), <<"s", "p", "i", "d", "e", "r">>)
      \/ NameContains(OptGet(browser, "name"), <<"b", "o", "t">>)

\* C10: in a production runtime every sink write has indexes [link.id], blobs
\* logs2blobs(record) and doubles logs2doubles(record) for the record
\* assembled from the invocation's link, request and event kind; the event
\* kind is in text slot 17 and the link id is in no blob.
C10_DispatchPayload ==
  (call.t = "call" /\ NODE_ENV = "production") =>
    \A i \in 1..Len(written) :
      LET record == createRequestLogs(call.event, call.link,
                                      getRequestLogContext(call.event), call.op)
          id == OptGet(call.link, "id")
      IN /\ record.t = "object"
         /\ ~HasKey(record.o, "id")
         /\ written[i].indexes = <<id>>
         /\ written[i].blobs = logs2blobs(record.o)
         /\ written[i].doubles = logs2doubles(record.o)
         /\ Len(written[i].blobs) = 17
         /\ Len(written[i].doubles) = 2
         /\ written[i].blobs[17] = Str(call.op)
         /\ written[i].blobs[1] = TextOf(call.link.o, "slug")
         /\ written[i].blobs[2] = TextOf(call.link.o, "url")
         /\ id.t = "string" => \A j \in 1..17 : written[i].blobs[j] # id

C10_Witness ==
  /\ Invoked("create")
  /\ NODE_ENV = "production"
  /\ Len(written) = 1
  /\ written[1].indexes = <<Str("id-1")>>
  /\ written[1].blobs[1] = Str("abc")
  /\ written[1].blobs[17] = Str("create")

-----------------------------------------------------------------------------
(* Properties of record assembly *)

NonEmpty(v) == ~Falsy(v)

RECURSIVE CommaJoin(_)
CommaJoin(parts) ==
  IF parts = <<>> THEN ""
  ELSE IF Len(parts) = 1 THEN parts[1].s
  ELSE parts[1].s \o "," \o CommaJoin(Tail(parts))

\* flag(country), one space, the comma-join of the non-empty members of
\* [raw, resolved country name].
Composite(cf, raw) ==
  LET country == OptGet(cf, "country")
      name == regionNamesOf(Or(country, Str("WD")))
  IN Str(getFlag(country).s \o " " \o CommaJoin(SelectSeq(<<raw, name>>, NonEmpty)))

\* C11: in every assembled record the region and city slots are the flag of
\* the country, a space, and the comma-join of the non-empty members of
\* [raw region or city, country name]; JP with region Tokyo and no city gives
\* '<JP flag> Tokyo,Japan' and '<JP flag> Japan'.
C11_CompositeFormat ==
  (call.t = "call" /\ call.logs.t = "object") =>
    LET cf == call.event.cf IN
      /\ Get(call.logs.o, "region") = Composite(cf, OptGet(cf, "region"))
      /\ Get(call.logs.o, "city") = Composite(cf, OptGet(cf, "city"))
      /\ \A i \in 1..Len(written) :
           /\ written[i].blobs[7] = Composite(cf, OptGet(cf, "region"))
           /\ written[i].blobs[8] = Composite(cf, OptGet(cf, "city"))
      /\ (OptGet(cf, "country") = Str("JP") /\ OptGet(cf, "region") = Str("Tokyo")
            /\ OptGet(cf, "city") = Undefined) =>
           /\ Get(call.logs.o, "region") = Str("<JP flag> Tokyo,Japan")
           /\ Get(call.logs.o, "city") = Str("<JP flag> Japan")

C11_Witness ==
  /\ call.t = "call"
  /\ call.logs.t = "object"
  /\ OptGet(call.event.cf, "country") = Str("JP")
  /\ Get(call.logs.o, "region") = Str("<JP flag> Tokyo,Japan")
  /\ Get(call.logs.o, "city") = Str("<JP flag> Japan")
  /\ Len(written) = 1

\* Some field of the assembled record that extraction could not derive is
\* neither absent nor a string.
Degraded(l) == \A f \in TextFields : Get(l, f).t \in {"string", "undefined"}

\* C12: getRequestLogContext and createRequestLogs complete without throwing
\* for every request, each underivable field degrading to absent or empty;
\* the country-name lookup never fails.
C12_ExtractionNeverRaises ==
  call.t = "call" =>
    /\ call.result # "threw"
    /\ call.logs.t = "object" => Degraded(call.logs.o)

SinkFailed == call.t = "call" /\ NODE_ENV = "production" /\ call.sink \in {"rejects", "throws"}

\* C13 as stated: when the sink's write fails or rejects, nothing is caught or
\* retried, and the failure is carried by the pending result that the
\* logging call hands back without waiting.
C13_FailureInResult ==
  SinkFailed =>
    /\ Len(written) = 1
    /\ call.handed.t = "promise"
    /\ call.handed.of = "sink"
    /\ call.handed.state \in {"pending", "rejected"}

\* C13 amended: when the sink's write fails, nothing is caught or retried; a
\* write whose result later rejects has that same result handed back,
\* unawaited, and the rejection is carried by it; a write that throws
\* propagates its exception out of the logging call, which hands back no
\* result.
C13_FailurePropagates ==
  SinkFailed =>
    /\ Len(written) = 1
    /\ call.handed.of = "sink"
    /\ call.sink = "rejects" =>
         call.handed.t = "promise" /\ call.handed.state \in {"pending", "rejected"}
    /\ call.sink = "throws" =>
         call.handed.t = "exception" /\ call.handed.state = "thrown"

C13_Witness ==
  /\ SinkFailed
  /\ call.op = "access"
  /\ call.sink = "rejects"
  /\ call.handed = Handed("promise", "sink", "rejected")
  /\ Len(written) = 1

NumericLayout == << "latitude", "longitude" >>

\* The decoded record has exactly the first Len(values) fields of the layout,
\* in order, each holding the value at its position.
PrefixOf(layout, values, record) ==
  /\ ObjectKeys(record) = SubSeq(layout, 1, Len(values))
  /\ \A i \in 1..Len(values) : Get(record, layout[i]) = values[i]
  /\ \A i \in (Len(values) + 1)..Len(layout) : ~HasKey(record, layout[i])

\* C14: for every sequence of n <= 17 strings, blobs2logs returns a record
\* whose keys are exactly the field names of text slots 1..n, each mapped to
\* the element at its position, with no key for slots n+1..17; doubles2logs
\* does the same for n <= 2 numbers.
C14_PrefixDecode ==
  decoded # None =>
    /\ (stored.channel = "blobs" /\ Len(stored.values) <= 17) =>
         PrefixOf(TextLayout, stored.values, decoded.o)
    /\ (stored.channel = "doubles" /\ Len(stored.values) <= 2) =>
         PrefixOf(NumericLayout, stored.values, decoded.o)

C14_Witness ==
  /\ decoded # None
  /\ stored.channel = "blobs"
  /\ Len(stored.values) = 9
  /\ stored.values[9] = Str("b")
  /\ Get(decoded.o, "timezone") = Str("b")
  /\ ~HasKey(decoded.o, "language")

\* C18: for an input of any length, longer than the channel's slot count
\* included, the record returned by blobs2logs or doubles2logs has only schema
\* field names of that channel as keys.
C18_DecodedKeys ==
  decoded # None =>
    \A i \in 1..Len(decoded.o) :
      decoded.o[i].k \in (IF stored.channel = "blobs" THEN TextFields ELSE NumericFields)

\* The field encoded at position i, and the field position i is decoded to.
EncodedField(map, order, i) == Get(map, order[i])
DecodedField(record, i) == record[i].k

\* C15: in both channels the declaration order of the schema table, which
\* the decoders zip against, is the ascending numeric-ordinal order the
\* encoders emit, so position i of an encoded sequence is decoded to the field
\* that was encoded at position i.
C15_OrderAgreement ==
  /\ ObjectKeys(blobsMap) = blobSlotOrder
  /\ ObjectKeys(doublesMap) = doubleSlotOrder
  /\ (blobs # None /\ textLogs # None) =>
       \A i \in 1..Len(blobs) :
         /\ DecodedField(textLogs, i) = EncodedField(blobsMap, blobSlotOrder, i)
         /\ textLogs[i].v = blobs[i]
  /\ (doubles # None /\ numLogs # None) =>
       \A i \in 1..Len(doubles) :
         /\ DecodedField(numLogs, i) = EncodedField(doublesMap, doubleSlotOrder, i)
         /\ numLogs[i].v = doubles[i]

C15_Witness ==
  /\ blobs # None
  /\ textLogs # None
  /\ doubles # None
  /\ numLogs # None
  /\ Get(logs, "language") = Str("b")
  /\ Get(logs, "longitude") = Num(7)
  /\ blobs[10] = Str("b")
  /\ textLogs[10] = [k |-> "language", v |-> Str("b")]
  /\ doubles[2] = Num(7)
  /\ numLogs[2] = [k |-> "longitude", v |-> Num(7)]

\* C16: in a non-production runtime neither logger calls the sink's write; an
\* unsuppressed invocation emits one local trace holding the assembled
\* record, both encoded sequences and the record decoded back from them, and
\* returns an already-resolved result.
C16_NonProductionDispatch ==
  (call.t = "call" /\ NODE_ENV # "production") =>
    /\ written = <<>>
    /\ ~Suppressed =>
         /\ call.logs.t = "object"
         /\ Len(traced) = 1
         /\ traced[1].args = LogsTrace(traced[1].label, call.logs.o).args
         /\ call.handed = Handed("promise", "Promise.resolve", "fulfilled")

\* What the invocation in slot r does when it is the only one running.
Alone(r) ==
  IF inflight[r].op = "access"
  THEN useAccessLog(inflight[r].event)
  ELSE useCreateLog(inflight[r].event, inflight[r].link)

WritesOf(r) == {i \in 1..Len(ANALYTICS) : ANALYTICS[i].rid = r}

\* C17: under any interleaving of simultaneous useAccessLog and useCreateLog
\* invocations, each sink write carries exactly the index, blobs and doubles
\* that the same invocation produces when run alone on its own request and
\* link, and the record an invocation assembled is still that record after
\* the encoders and decoders have run on it.
C17_Isolation ==
  /\ \A i \in 1..Len(ANALYTICS) : Alone(ANALYTICS[i].rid).written = <<ANALYTICS[i].point>>
  /\ \A r \in 1..MaxInflight :
       /\ Cardinality(WritesOf(r)) <= 1
       /\ inflight[r].pc \in {"assembled", "done"} => inflight[r].logs = Alone(r).logs
       /\ inflight[r].pc = "done" =>
            /\ Cardinality(WritesOf(r)) = Len(Alone(r).written)
            /\ inflight[r].traced = Alone(r).traced

C17_Witness ==
  /\ Len(ANALYTICS) = 2
  /\ ANALYTICS[1].rid = 2
  /\ ANALYTICS[2].rid = 1
  /\ inflight[1].op = "access"
  /\ inflight[2].op = "create"
  /\ inflight[1].pc = "done"
  /\ inflight[2].pc = "done"
  /\ ANALYTICS[1].point.indexes = <<Str("id-2")>>
  /\ ANALYTICS[2].point.indexes = <<Str("id-1")>>
  /\ ANALYTICS[1].point.blobs # ANALYTICS[2].point.blobs

====
